---- MODULE Spec2Model ----
(***************************************************************************)
(* Model of the cognitive-screening client: the Assessment page            *)
(* (src/unnamed/part_000) and the chat widget                              *)
(* (src/src/components/Chatbot.tsx).                                       *)
(*                                                                         *)
(* Numbers of the heuristic are exact rationals over fixed denominators:   *)
(* a normalised sub-score is a count of quarters, the cognitive average a  *)
(* count of sixteenths, a speech ratio a count of 1/RatioDen, and a        *)
(* probability a count of 1/ProbDen.                                       *)
(***************************************************************************)
EXTENDS Integers, Sequences, FiniteSets, Bags, TLC

VARIABLES
    speechDurations,   \* Record<string, number>: task id -> recorded ms
    assessmentId,      \* session context: string | null
    result,            \* AssessmentResult | null
    language,          \* user?.language || "en", the useMemo dependency
    cognitiveTasks,    \* the memoised generateCognitiveTasks(language); <<>> before the first render
    messages,          \* Chatbot: the transcript, Msg[]
    loading,           \* Chatbot: a reply is pending
    apiKey,            \* import.meta.env.VITE_DEEPSEEK_API_KEY is set
    chatCall,          \* Chatbot: the callDeepSeek(q) awaited by handleSend, or None
    auth,              \* session context: the provider of auth, "none" for null
    user,              \* session context: user | null
    activeStepIndex,   \* index into STEP_CONFIG
    isLoading,
    isSpeechUploading,
    isResultPending,
    history,           \* AssessmentResult[]
    toast,             \* title of the last toast shown, "" before the first
    stores,            \* per provider, the reports its store holds
    tasks,             \* the bag of async functions suspended at an await, each with its closure
    started,           \* backend: the number of assessments startAssessment has opened
    useLocalHeuristic  \* the build's USE_LOCAL_HEURISTIC

heurVars == <<speechDurations, assessmentId, result>>
genVars == <<language, cognitiveTasks>>
chatVars == <<messages, loading, apiKey, chatCall>>
appVars == <<auth, user, activeStepIndex, isLoading, isSpeechUploading, isResultPending,
             history, toast, stores, tasks, started, useLocalHeuristic>>
vars == <<heurVars, genVars, chatVars, appVars>>

\* A nullable value is a sequence of at most one element.
None == <<>>
Some(x) == <<x>>

Min(a, b) == IF a <= b THEN a ELSE b
Max(a, b) == IF a >= b THEN a ELSE b

(***************************************************************************)
(* Heuristic risk estimator                                                *)
(***************************************************************************)
USE_LOCAL_HEURISTIC == TRUE

SPEECH_TASKS ==
    << [id |-> "picture-description", maxDurationMs |-> 90000],
       [id |-> "story-recall",        maxDurationMs |-> 120000],
       [id |-> "free-conversation",   maxDurationMs |-> 90000] >>

SpeechTaskIds == { SPEECH_TASKS[i].id : i \in 1..Len(SPEECH_TASKS) }

domainMax ==
    [memoryScore |-> 2, attentionScore |-> 4, languageScore |-> 1, executiveScore |-> 1]

\* Denominator of a speech ratio b / expected[i]: a common multiple of the
\* task maxima, so that every ratio is an exact integer count.
RatioDen == 4 * 90000
\* Denominator of the coverage: the ratios' sum divided by recorded.length.
CoverageDen == RatioDen * Len(SPEECH_TASKS)
\* Denominator of a probability: 0.7 * (k/16) and 0.3 * (c/CoverageDen) are
\* both whole counts of 1/ProbDen.
ProbDen == 10 * CoverageDen
\* The decimal literal n/d as a count of 1/ProbDen.
Dec(n, d) == (ProbDen * n) \div d

\* Math.min(1, score / max), as quarters.
Normalise(score, max) == Min(4, (4 * score) \div max)

\* (mem + att + lang + exec) / 4, as sixteenths.
cognitiveAvg(scores) ==
    Normalise(scores.memoryScore, domainMax.memoryScore)
    + Normalise(scores.attentionScore, domainMax.attentionScore)
    + Normalise(scores.languageScore, domainMax.languageScore)
    + Normalise(scores.executiveScore, domainMax.executiveScore)

\* SPEECH_TASKS.map((t) => t.maxDurationMs ?? 60_000)
expected == [i \in 1..Len(SPEECH_TASKS) |-> SPEECH_TASKS[i].maxDurationMs]

\* SPEECH_TASKS.map((t) => Math.min(speechDurations[t.id] ?? 0, t.maxDurationMs))
recorded(durations) ==
    [i \in 1..Len(SPEECH_TASKS) |->
        Min(IF SPEECH_TASKS[i].id \in DOMAIN durations
              THEN durations[SPEECH_TASKS[i].id] ELSE 0,
            SPEECH_TASKS[i].maxDurationMs)]

\* expected[i] ? b / expected[i] : 0, as a count of 1/RatioDen (every
\* expected[i] divides RatioDen).
Ratio(b, e) == IF e /= 0 THEN b * (RatioDen \div e) ELSE 0

RECURSIVE SumRatios(_, _)
SumRatios(rec, i) ==
    IF i = 0 THEN 0 ELSE SumRatios(rec, i - 1) + Ratio(rec[i], expected[i])

\* Mutant: the neutral 0.5 is taken when no task has a recorded duration.
coverageNeutralWhenNone(durations) ==
    LET rec == recorded(durations) IN
    IF DOMAIN durations \cap SpeechTaskIds /= {}
      THEN (SumRatios(rec, Len(rec)) * (CoverageDen \div RatioDen)) \div Len(rec)
      ELSE CoverageDen \div 2

\* recorded.length ? recorded.reduce(...) / recorded.length : 0.5,
\* as a count of 1/CoverageDen.
coverage(durations) ==
    LET rec == recorded(durations) IN
    IF Len(rec) /= 0
      THEN (SumRatios(rec, Len(rec)) * (CoverageDen \div RatioDen)) \div Len(rec)
      ELSE CoverageDen \div 2

\* 1 - (0.7 * cognitiveAvg + 0.3 * coverage), as a count of 1/ProbDen.
rawProbability(cog, cov) ==
    ProbDen - (7 * cog * (ProbDen \div 160) + 3 * cov * (ProbDen \div (10 * CoverageDen)))

\* Mutant: the clamp left out.
clampProbabilityMissing(p) == p

\* Math.min(0.98, Math.max(0.02, probability))
clampProbability(p) == Min(Dec(98, 100), Max(Dec(2, 100), p))

\* Mutant: the Medium threshold applied where the High one belongs.
riskLevelOfOneThreshold(p) ==
    IF p > Dec(33, 100) THEN "High" ELSE IF p > Dec(33, 100) THEN "Medium" ELSE "Low"

\* probability > 0.66 ? "High" : probability > 0.33 ? "Medium" : "Low"
riskLevelOf(p) ==
    IF p > Dec(66, 100) THEN "High" ELSE IF p > Dec(33, 100) THEN "Medium" ELSE "Low"

\* The heuristic AssessmentResult built by handleCognitiveComplete.
Heuristic(aid, scores, durations) ==
    LET probability == clampProbability(rawProbability(cognitiveAvg(scores), coverage(durations)))
    IN [assessmentId |-> aid,
        riskLevel    |-> riskLevelOf(probability),
        probability  |-> probability,
        subScores    |-> scores]

\* All sub-score tuples within their domain maxima.
ScoreTuples ==
    [memoryScore : 0..domainMax.memoryScore, attentionScore : 0..domainMax.attentionScore,
     languageScore : 0..domainMax.languageScore, executiveScore : 0..domainMax.executiveScore]

(***************************************************************************)
(* Task generator                                                          *)
(***************************************************************************)
\* Math.random is sampled: the comparator sort of shuffle can return any
\* permutation of its input, and the model draws the permutations numbered
\* 0..MaxShuffle: an even k rotates left by k/2, an odd k rotates left by
\* (k-1)/2 and then reverses.
MaxShuffle == 2

Rotate(arr, r) ==
    [i \in 1..Len(arr) |-> arr[((i - 1 + r) % Len(arr)) + 1]]
Reverse(arr) ==
    [i \in 1..Len(arr) |-> arr[Len(arr) + 1 - i]]
Permuted(arr, k) ==
    IF Len(arr) = 0 THEN arr
    ELSE IF k % 2 = 0 THEN Rotate(arr, k \div 2) ELSE Reverse(Rotate(arr, (k - 1) \div 2))

\* [...arr].sort(() => Math.random() - 0.5): the outcomes drawn for arr.
shuffle(arr) == { Permuted(arr, k) : k \in 0..MaxShuffle }

\* arr.slice(0, n)
Slice(arr, n) == SubSeq(arr, 1, Min(n, Len(arr)))

\* arr.includes(x)
Includes(arr, x) == \E i \in 1..Len(arr) : arr[i] = x

\* arr.filter((w) => !other.includes(w))
RECURSIVE FilterNotIn(_, _)
FilterNotIn(arr, other) ==
    IF arr = <<>> THEN <<>>
    ELSE IF Includes(other, Head(arr)) THEN FilterNotIn(Tail(arr), other)
    ELSE <<Head(arr)>> \o FilterNotIn(Tail(arr), other)

\* Mutant: positions counted from 1.
indexOfOneBased(arr, x) ==
    IF \E i \in 1..Len(arr) : arr[i] = x
      THEN CHOOSE i \in 1..Len(arr) : arr[i] = x /\ \A j \in 1..(i - 1) : arr[j] /= x
      ELSE -1

\* arr.indexOf(x): the first 0-based position of x, -1 when absent.
indexOf(arr, x) ==
    IF Includes(arr, x)
      THEN (CHOOSE i \in 1..Len(arr) : arr[i] = x /\ \A j \in 1..(i - 1) : arr[j] /= x) - 1
      ELSE -1

\* Array.from(new Set(arr)): first occurrences, in insertion order.
RECURSIVE Dedup(_)
Dedup(arr) ==
    IF arr = <<>> THEN <<>>
    ELSE LET init == Dedup(SubSeq(arr, 1, Len(arr) - 1))
             last == arr[Len(arr)]
         IN IF Includes(init, last) THEN init ELSE Append(init, last)

\* String(d) of a decimal digit.
DigitString(d) == <<"0", "1", "2", "3", "4", "5", "6", "7", "8", "9">>[d + 1]

WORDS_BY_LANG ==
    [en |-> <<"Apple", "Train", "Moon", "Garden", "Candle", "Bridge", "Star", "Window",
              "River", "Mirror", "Bottle">>,
     hi |-> <<"hi:seb", "hi:rel", "hi:chaand", "hi:baag", "hi:mombatti", "hi:pul", "hi:taara",
              "hi:khidki", "hi:nadi", "hi:aaina", "hi:botal">>,
     bn |-> <<"bn:apel", "bn:tren", "bn:chand", "bn:udyan", "bn:mombati", "bn:setu", "bn:taroka",
              "bn:janala", "bn:nodi", "bn:ayna", "bn:botol">>,
     ta |-> <<"ta:appil", "ta:rayil", "ta:nila", "ta:thottam", "ta: mezhuguvarthi", "ta:paalam",
              "ta:natchathiram", "ta:jannal", "ta:nadhi", "ta:kannadi", "ta:paattil">>]

\* The language codes tried: two with a lexicon, one with a label but no
\* lexicon ("te"), one unknown ("xx").
Languages == {"en", "ta", "te", "xx"}

\* WORDS_BY_LANG[language] ?? WORDS_BY_LANG.en
Lexicon(lang) == IF lang \in DOMAIN WORDS_BY_LANG THEN WORDS_BY_LANG[lang] ELSE WORDS_BY_LANG.en

makeWordRecallTask(id, words, options) ==
    [id |-> id, type |-> "word-recall", prompt |-> words, options |-> options,
     sequenceAnswer |-> [i \in 1..Len(words) |-> indexOf(options, words[i])]]

\* pool is the shuffled, de-duplicated digits-plus-distractors array.
makeDigitSpanTask(id, digits, pool) ==
    LET options == [i \in 1..Len(pool) |-> DigitString(pool[i])]
    IN [id |-> id, type |-> "digit-span",
        prompt |-> [i \in 1..Len(digits) |-> DigitString(digits[i])],
        options |-> options,
        sequenceAnswer |-> [i \in 1..Len(digits) |-> indexOf(options, DigitString(digits[i]))]]

\* The pools makeDigitSpanTask can draw for digits.
DigitPools(digits) ==
    UNION { shuffle(Dedup(digits \o Slice(d, 5))) : d \in shuffle(<<0, 1, 2, 3, 4, 5, 6, 7, 8, 9>>) }

attention1 ==
    [id |-> "attention-sequence", type |-> "attention",
     options |-> <<"Red", "Blue", "Green">>, correctAnswer |-> 0]
visualSearch ==
    [id |-> "attention-visual", type |-> "attention",
     options |-> <<"Circle", "Square", "Triangle">>, correctAnswer |-> 0]
clock == [id |-> "clock-drawing", type |-> "clock-drawing"]

\* Mutant: the second pool drawn from the whole lexicon.
RestOfLexiconUnfiltered(lex, poolA) == lex

\* poolB's source: lex.filter((w) => !poolA.includes(w))
RestOfLexicon(lex, poolA) == FilterNotIn(lex, poolA)

\* The body of generateCognitiveTasks(language): one list of seven tasks per
\* outcome of the shuffles.
generateCognitiveTasks(lang) ==
    LET lex == Lexicon(lang) IN
    \E sa \in shuffle(lex) :
      LET poolA == Slice(sa, 5) IN
      \E sb \in shuffle(RestOfLexicon(lex, poolA)) :
        LET poolB == Slice(sb, 5) IN
        \E optA \in shuffle(poolA), optB \in shuffle(poolB) :
          \E pool1 \in DigitPools(<<3, 9, 1, 4, 7>>), pool2 \in DigitPools(<<7, 2, 9, 3>>) :
            cognitiveTasks' =
              << makeWordRecallTask("word-recall", poolA, optA),
                 makeDigitSpanTask("digit-span", <<3, 9, 1, 4, 7>>, pool1),
                 attention1,
                 makeWordRecallTask("word-recall-2", poolB, optB),
                 makeDigitSpanTask("digit-span-reverse", <<7, 2, 9, 3>>, pool2),
                 visualSearch,
                 clock >>

(***************************************************************************)
(* Chat widget                                                             *)
(***************************************************************************)
\* A regular expression is a set of alternatives, each a sequence of tokens:
\* a literal (lower-case) string, or WS for \s+. All of KB's patterns carry
\* the i flag, so the subject is matched lower-cased.
WS == "\\s+"
Whitespace == {" ", "\t", "\n"}
CharAt(str, i) == SubSeq(str, i, i)

UpperCase == <<"A", "B", "C", "D", "E", "F", "G", "H", "I", "J", "K", "L", "M",
               "N", "O", "P", "Q", "R", "S", "T", "U", "V", "W", "X", "Y", "Z">>
LowerCase == <<"a", "b", "c", "d", "e", "f", "g", "h", "i", "j", "k", "l", "m",
               "n", "o", "p", "q", "r", "s", "t", "u", "v", "w", "x", "y", "z">>
ToLowerChar(c) ==
    IF \E k \in 1..Len(UpperCase) : UpperCase[k] = c
      THEN LowerCase[CHOOSE k \in 1..Len(UpperCase) : UpperCase[k] = c]
      ELSE c
RECURSIVE ToLower(_)
ToLower(str) ==
    IF Len(str) = 0 THEN "" ELSE ToLowerChar(CharAt(str, 1)) \o ToLower(SubSeq(str, 2, Len(str)))

\* Whether tokens k.. of pat match str from position i on.
RECURSIVE MatchFrom(_, _, _, _)
MatchFrom(pat, k, str, i) ==
    IF k > Len(pat) THEN TRUE
    ELSE IF pat[k] = WS
      THEN \E n \in 1..(Len(str) - i + 1) :
             /\ \A m \in i..(i + n - 1) : CharAt(str, m) \in Whitespace
             /\ MatchFrom(pat, k + 1, str, i + n)
      ELSE /\ i + Len(pat[k]) - 1 <= Len(str)
           /\ SubSeq(str, i, i + Len(pat[k]) - 1) = pat[k]
           /\ MatchFrom(pat, k + 1, str, i + Len(pat[k]))

\* re.test(str) for an unanchored pattern with the i flag.
RegExpTest(re, str) ==
    \E alt \in re : \E i \in 1..(Len(str) + 1) : MatchFrom(alt, 1, ToLower(str), i)

KB ==
    << [q |-> { <<"what", WS, "is", WS, "dementia">>, <<"dementia">> },
        a |-> "Dementia is a syndrome affecting memory, thinking, behavior and the ability to perform everyday activities. Alzheimer's disease is the most common cause."],
       [q |-> { <<"symptom">>, <<"sign">>, <<"memory">>, <<"forget">> },
        a |-> "Common signs: memory loss, difficulty planning, confusion about time/place, language problems, poor judgment, mood/behavior changes."],
       [q |-> { <<"risk">>, <<"cause">> },
        a |-> "Risk factors: age, family history, cardiovascular disease, diabetes, head injury, low physical/social activity."],
       [q |-> { <<"prevent">>, <<"reduce">>, <<"lifestyle">> },
        a |-> "Healthy diet, exercise, cognitive and social engagement, good sleep, and blood pressure control may reduce risk."],
       [q |-> { <<"diagnos">>, <<"test">>, <<"screen">> },
        a |-> "Diagnosis: clinical history, cognitive tests, labs, and imaging. Early screening helps plan care. Always consult a clinician."],
       [q |-> { <<"treat">>, <<"cure">>, <<"medicat">> },
        a |-> "No cure for most dementias, but medicines and therapies can help manage symptoms and enhance quality of life."] >>

Disclaimer == " (This is general info, not medical advice)"
MenuResponse ==
    "I can share general information about dementia (not medical advice). Ask about symptoms, risk factors, prevention, diagnosis, or treatment."

\* Mutant: the loop does not return at the first match; the answer of the
\* last matching entry wins.
RECURSIVE fallbackFromLastMatch(_, _)
fallbackFromLastMatch(query, k) ==
    IF k > Len(KB) THEN MenuResponse
    ELSE LET rest == fallbackFromLastMatch(query, k + 1)
         IN IF RegExpTest(KB[k].q, query) /\ rest = MenuResponse
              THEN KB[k].a \o Disclaimer ELSE rest

\* The loop of fallbackAnswer from entry k on:
\* for (const item of KB) if (item.q.test(query)) return item.a + "..."; return menu
RECURSIVE fallbackFrom(_, _)
fallbackFrom(query, k) ==
    IF k > Len(KB) THEN MenuResponse
    ELSE IF RegExpTest(KB[k].q, query) THEN KB[k].a \o Disclaimer
    ELSE fallbackFrom(query, k + 1)

fallbackAnswer(query) == fallbackFrom(query, 1)

\* input.trim()
RECURSIVE TrimStart(_)
TrimStart(str) ==
    IF Len(str) > 0 /\ CharAt(str, 1) \in Whitespace
      THEN TrimStart(SubSeq(str, 2, Len(str))) ELSE str
RECURSIVE TrimEnd(_)
TrimEnd(str) ==
    IF Len(str) > 0 /\ CharAt(str, Len(str)) \in Whitespace
      THEN TrimEnd(SubSeq(str, 1, Len(str) - 1)) ELSE str
Trim(str) == TrimEnd(TrimStart(str))

Greeting ==
    "Hi! How can I help you with dementia-related questions? This is general information, not medical advice."

\* What the user may have typed when sending.
Inputs ==
    { "", "  ", "What causes dementia risk", "hello", " RISK factors ", "what  is Dementia",
      "any cure?", "Symptoms" }
\* What the remote completion may answer.
RemoteTexts == { "- Age and family history raise risk. This is general information, not medical advice." }
\* Sends accepted per run of the model.
MaxSends == 2

ChatInit ==
    /\ messages = << [role |-> "bot", text |-> Greeting] >>
    /\ loading = FALSE
    /\ chatCall = None

\* The conversation callDeepSeek sends: system prompt, history, new question.
ChatRequest(q) ==
    << [role |-> "system", content |-> "sys"] >>
    \o [i \in 1..Len(messages) |->
          [role |-> IF messages[i].role = "bot" THEN "assistant" ELSE "user",
           content |-> messages[i].text]]
    \o << [role |-> "user", content |-> q] >>

\* callDeepSeek(q) up to its await: without a key it returns the fallback
\* answer and makes no remote call, with one it sends the conversation.
callDeepSeek(q) ==
    IF ~apiKey
      THEN [q |-> q, status |-> "local", msgs |-> <<>>, text |-> fallbackAnswer(q)]
      ELSE [q |-> q, status |-> "sent", msgs |-> ChatRequest(q), text |-> ""]

\* Mutant: `loading` left out of the early return's condition.
handleSendWhilePending(input) ==
    LET q == Trim(input) IN
    IF q = ""
      THEN UNCHANGED <<messages, loading, chatCall>>
      ELSE /\ messages' = Append(messages, [role |-> "user", text |-> q])
           /\ loading' = TRUE
           /\ chatCall' = Some(callDeepSeek(q))

\* handleSend up to `await callDeepSeek(q)`.
handleSend(input) ==
    LET q == Trim(input) IN
    IF q = "" \/ loading
      THEN UNCHANGED <<messages, loading, chatCall>>
      ELSE /\ messages' = Append(messages, [role |-> "user", text |-> q])
           /\ loading' = TRUE
           /\ chatCall' = Some(callDeepSeek(q))

\* chatDeepSeek(msgs, ...) resolves with a text.
chatDeepSeekResolves(text) ==
    /\ chatCall /= None
    /\ chatCall[1].status = "sent"
    /\ chatCall' = Some([chatCall[1] EXCEPT !.status = "ok", !.text = text])
    /\ UNCHANGED <<messages, loading>>

\* chatDeepSeek(msgs, ...) throws (network error, malformed response).
chatDeepSeekThrows ==
    /\ chatCall /= None
    /\ chatCall[1].status = "sent"
    /\ chatCall' = Some([chatCall[1] EXCEPT !.status = "err"])
    /\ UNCHANGED <<messages, loading>>

\* Mutant: the catch of callDeepSeek left out, the failed call's (empty)
\* text returned.
callDeepSeekResultUncaught(c) == c.text

\* The value callDeepSeek's promise resolves with: try { return text } catch { return fallbackAnswer(q) }
callDeepSeekResult(c) ==
    IF c.status = "err" THEN fallbackAnswer(c.q) ELSE c.text

\* handleSend after `await callDeepSeek(q)`.
handleSendResume ==
    /\ chatCall /= None
    /\ chatCall[1].status \in {"local", "ok", "err"}
    /\ messages' = Append(messages, [role |-> "bot", text |-> callDeepSeekResult(chatCall[1])])
    /\ loading' = FALSE
    /\ chatCall' = None

(***************************************************************************)
(* Assessment page                                                         *)
(***************************************************************************)
STEP_CONFIG == <<"consent", "speech", "cognitive", "results">>

Providers == {"firebase", "local", "none"}

\* Reports saved before this page was opened: one in the cloud account and
\* one in the encrypted local store; none under the plain key of a new user.
PriorReport(provider) ==
    [assessmentId |-> "prior-" \o provider, riskLevel |-> "Low", probability |-> Dec(2, 100),
     subScores |-> [memoryScore |-> 2, attentionScore |-> 4, languageScore |-> 1,
                    executiveScore |-> 1]]

\* The state of the Assessment component after its first render and effects.
AppInit ==
    /\ auth = "none"
    /\ user = None
    /\ activeStepIndex = 0
    /\ isLoading = FALSE
    /\ isSpeechUploading = FALSE
    /\ isResultPending = FALSE
    /\ history = <<>>
    /\ toast = ""
    /\ stores = [p \in Providers |-> IF p = "none" THEN <<>> ELSE <<PriorReport(p)>>]
    /\ tasks = EmptyBag
    /\ started = 0

\* Async functions in flight at once.
MaxTasks == 2

\* Assessments started on one page.
MaxAssessments == 2

\* The id the backend gives the n-th assessment it opens.
AssessmentIdOf(n) == "a" \o SubSeq("123456789", n, n)

\* The tasks once t has finished, has been started, has moved on to t2.
Without(tks, t) == tks (-) SetToBag({t})
Spawn(tks, t) == tks (+) SetToBag({t})
With(tks, t, t2) == Spawn(Without(tks, t), t2)
InFlight == BagCardinality(tasks)

\* Math.min(index + 1, STEP_CONFIG.length - 1)
advanceStep(index) == Min(index + 1, Len(STEP_CONFIG) - 1)

isCloudSignedIn == auth = "firebase"

\* clearSession() of the session context: the restart of the session drops
\* the current user and the assessment id; the sign-in is kept, as sign-out
\* is handleAuthLogout's.
clearSession == [user |-> None, assessmentId |-> None]

\* The history effect, run after a render in which auth or user changed:
\* given the new auth and user, and the history and tasks the handler left,
\* the history and tasks after the effect's synchronous part.
HistoryEffect(a, u, h, tks) ==
    IF a \in {"firebase", "local"}
      THEN [history |-> h, tasks |-> Spawn(tks, [k |-> "effect", pc |-> "load", provider |-> a])]
      ELSE IF u /= None
        THEN [history |-> stores["none"], tasks |-> tks]
        ELSE [history |-> <<>>, tasks |-> tks]

\* The effect's `await loadReports / loadEncryptedAssessmentHistory` resolves:
\* setHistory(arr).
EffectLoadResolves(t) ==
    /\ t.k = "effect"
    /\ history' = stores[t.provider]
    /\ tasks' = Without(tasks, t)
    /\ UNCHANGED <<auth, user, assessmentId, activeStepIndex, isLoading, isSpeechUploading,
                   isResultPending, result, speechDurations, toast, stores>>

\* The effect's load rejects: the async function ends, nothing is set.
EffectLoadRejects(t) ==
    /\ t.k = "effect"
    /\ tasks' = Without(tasks, t)
    /\ UNCHANGED <<auth, user, assessmentId, activeStepIndex, isLoading, isSpeechUploading,
                   isResultPending, result, speechDurations, toast, stores, history>>

\* "Continue with Google" onClick up to `await signInWithGoogle()`; the
\* button is rendered while auth is null.
ClickGoogle ==
    /\ auth = "none"
    /\ InFlight < MaxTasks
    /\ tasks' = Spawn(tasks, [k |-> "google", pc |-> "signIn"])
    /\ UNCHANGED <<auth, user, assessmentId, activeStepIndex, isLoading, isSpeechUploading,
                   isResultPending, result, speechDurations, toast, stores, history>>

\* signInWithGoogle() resolves: setAuth(firebase), then `await loadReports`.
GoogleSignedIn(t) ==
    /\ t.k = "google" /\ t.pc = "signIn"
    /\ InFlight < MaxTasks
    /\ auth' = "firebase"
    /\ LET e == HistoryEffect("firebase", user, history, With(tasks, t, [k |-> "google", pc |-> "load"]))
       IN history' = e.history /\ tasks' = e.tasks
    /\ UNCHANGED <<user, assessmentId, activeStepIndex, isLoading, isSpeechUploading,
                   isResultPending, result, speechDurations, toast, stores>>

\* signInWithGoogle() or the handler's loadReports rejects: the catch toasts.
GoogleFails(t) ==
    /\ t.k = "google"
    /\ toast' = "Google sign-in failed"
    /\ tasks' = Without(tasks, t)
    /\ UNCHANGED <<auth, user, assessmentId, activeStepIndex, isLoading, isSpeechUploading,
                   isResultPending, result, speechDurations, stores, history>>

\* The handler's loadReports resolves: setHistory(arr), toast.
GoogleLoaded(t) ==
    /\ t.k = "google" /\ t.pc = "load"
    /\ history' = stores["firebase"]
    /\ toast' = "Signed in with Google"
    /\ tasks' = Without(tasks, t)
    /\ UNCHANGED <<auth, user, assessmentId, activeStepIndex, isLoading, isSpeechUploading,
                   isResultPending, result, speechDurations, stores>>

\* handleAuthLogin up to `await fingerprint(...)`; its buttons are rendered
\* while auth is null.
handleAuthLogin(authEmail, authPassword) ==
    /\ auth = "none"
    /\ IF authEmail = "" \/ authPassword = ""
         THEN /\ toast' = "Enter email and password"
              /\ UNCHANGED tasks
         ELSE /\ InFlight < MaxTasks
              /\ tasks' = Spawn(tasks, [k |-> "login", pc |-> "fingerprint"])
              /\ UNCHANGED toast
    /\ UNCHANGED <<auth, user, assessmentId, activeStepIndex, isLoading, isSpeechUploading,
                   isResultPending, result, speechDurations, stores, history>>

\* fingerprint resolves: setAuth(local), then `await loadEncryptedAssessmentHistory`.
LoginFingerprinted(t) ==
    /\ t.k = "login" /\ t.pc = "fingerprint"
    /\ InFlight < MaxTasks
    /\ auth' = "local"
    /\ LET e == HistoryEffect("local", user, history, With(tasks, t, [k |-> "login", pc |-> "load"]))
       IN history' = e.history /\ tasks' = e.tasks
    /\ UNCHANGED <<user, assessmentId, activeStepIndex, isLoading, isSpeechUploading,
                   isResultPending, result, speechDurations, toast, stores>>

\* The handler's load settles: setHistory(arr) unless it threw (catch {}), toast.
LoginLoaded(t, ok) ==
    /\ t.k = "login" /\ t.pc = "load"
    /\ history' = IF ok THEN stores["local"] ELSE history
    /\ toast' = "Signed in"
    /\ tasks' = Without(tasks, t)
    /\ UNCHANGED <<auth, user, assessmentId, activeStepIndex, isLoading, isSpeechUploading,
                   isResultPending, result, speechDurations, stores>>

\* handleAuthLogout; its button is rendered while auth is set. logoutFirebase
\* is not awaited and its failure is dropped.
handleAuthLogout ==
    /\ auth /= "none"
    /\ auth' = "none"
    /\ LET e == HistoryEffect("none", user, <<>>, tasks)
       IN history' = e.history /\ tasks' = e.tasks
    /\ UNCHANGED <<user, assessmentId, activeStepIndex, isLoading, isSpeechUploading,
                   isResultPending, result, speechDurations, toast, stores>>

\* resetAssessment, "Start New Assessment" on the results step: clearSession(),
\* step 0, setResult(null), setIsResultPending(false). The history effect
\* runs for the cleared user.
resetAssessment ==
    /\ STEP_CONFIG[activeStepIndex + 1] = "results"
    /\ user /= clearSession.user /\ auth /= "none" => InFlight < MaxTasks
    /\ user' = clearSession.user
    /\ assessmentId' = clearSession.assessmentId
    /\ activeStepIndex' = 0
    /\ result' = None
    /\ isResultPending' = FALSE
    /\ LET e == IF user' /= user THEN HistoryEffect(auth, user', history, tasks)
                 ELSE [history |-> history, tasks |-> tasks]
       IN history' = e.history /\ tasks' = e.tasks
    /\ UNCHANGED <<auth, isLoading, isSpeechUploading, speechDurations, toast, stores>>

\* requireCloudSignIn(): true when the handler must return.
requireCloudSignIn == ~isCloudSignedIn

\* handleOnboardingSubmit up to `await registerUser(payload)`. The form is
\* rendered on the consent step while cloud-signed-in, and is passed
\* isSubmitting = isLoading.
handleOnboardingSubmit ==
    /\ STEP_CONFIG[activeStepIndex + 1] = "consent" /\ isCloudSignedIn /\ ~isLoading
    /\ IF requireCloudSignIn
         THEN /\ toast' = "Sign in required"
              /\ UNCHANGED <<isLoading, tasks>>
         ELSE /\ InFlight < MaxTasks
              /\ started < MaxAssessments
              /\ isLoading' = TRUE
              /\ tasks' = Spawn(tasks, [k |-> "onboarding", pc |-> "register"])
              /\ UNCHANGED toast
    /\ UNCHANGED <<auth, user, assessmentId, activeStepIndex, isSpeechUploading,
                   isResultPending, result, speechDurations, stores, history>>

\* registerUser resolves: setUser(...), then `await startAssessment(...)`.
\* The history effect runs for the new user.
OnboardingRegistered(t) ==
    /\ t.k = "onboarding" /\ t.pc = "register"
    /\ auth = "none" \/ InFlight < MaxTasks
    /\ user' = Some("u1")
    /\ LET e == HistoryEffect(auth, Some("u1"), history, With(tasks, t, [k |-> "onboarding", pc |-> "start"]))
       IN history' = e.history /\ tasks' = e.tasks
    /\ UNCHANGED <<auth, assessmentId, activeStepIndex, isLoading, isSpeechUploading,
                   isResultPending, result, speechDurations, toast, stores>>

\* Mutant: setIsLoading(false) at the end of the try block, not in a finally.
OnboardingFailsLoading(t) ==
    /\ t.k = "onboarding"
    /\ toast' = "Could not register"
    /\ tasks' = Without(tasks, t)
    /\ UNCHANGED <<auth, user, assessmentId, activeStepIndex, isSpeechUploading, isLoading,
                   isResultPending, result, speechDurations, stores, history>>

\* registerUser or startAssessment rejects: catch toasts, finally clears isLoading.
OnboardingFails(t) ==
    /\ t.k = "onboarding"
    /\ toast' = "Could not register"
    /\ isLoading' = FALSE
    /\ tasks' = Without(tasks, t)
    /\ UNCHANGED <<auth, user, assessmentId, activeStepIndex, isSpeechUploading,
                   isResultPending, result, speechDurations, stores, history>>

\* startAssessment resolves: setAssessmentId, toast, advanceStep, finally.
\* The effect on assessmentId resets the result.
OnboardingStarted(t) ==
    /\ t.k = "onboarding" /\ t.pc = "start"
    /\ started' = started + 1
    /\ assessmentId' = Some(AssessmentIdOf(started'))
    /\ result' = IF assessmentId' /= assessmentId THEN None ELSE result
    /\ toast' = "Registration successful"
    /\ activeStepIndex' = advanceStep(activeStepIndex)
    /\ isLoading' = FALSE
    /\ tasks' = Without(tasks, t)
    /\ UNCHANGED <<auth, user, isSpeechUploading, isResultPending, speechDurations, stores,
                   history>>

\* handleSpeechUpload up to `await uploadSpeechSample(...)`. The recorder is
\* rendered on the speech step while cloud-signed-in with a user and an
\* assessment, and is passed isUploading = isSpeechUploading.
handleSpeechUpload(taskId, durationMs) ==
    /\ STEP_CONFIG[activeStepIndex + 1] = "speech" /\ isCloudSignedIn
    /\ user /= None /\ assessmentId /= None /\ ~isSpeechUploading
    /\ IF requireCloudSignIn
         THEN /\ toast' = "Sign in required"
              /\ UNCHANGED <<isSpeechUploading, tasks>>
         ELSE IF assessmentId = None \/ user = None
           THEN /\ toast' = "Assessment not started"
                /\ UNCHANGED <<isSpeechUploading, tasks>>
           ELSE /\ InFlight < MaxTasks
                /\ isSpeechUploading' = TRUE
                /\ tasks' = Spawn(tasks, [k |-> "upload", pc |-> "upload", taskId |-> taskId,
                                           durationMs |-> durationMs])
                /\ UNCHANGED toast
    /\ UNCHANGED <<auth, user, assessmentId, activeStepIndex, isLoading,
                   isResultPending, result, speechDurations, stores, history>>

\* uploadSpeechSample resolves: toast, setSpeechDurations, finally.
SpeechUploaded(t) ==
    /\ t.k = "upload"
    /\ toast' = "Speech sample captured"
    /\ speechDurations' =
         [id \in DOMAIN speechDurations \cup {t.taskId} |->
            IF id = t.taskId THEN t.durationMs ELSE speechDurations[id]]
    /\ isSpeechUploading' = FALSE
    /\ tasks' = Without(tasks, t)
    /\ UNCHANGED <<auth, user, assessmentId, activeStepIndex, isLoading,
                   isResultPending, result, stores, history>>

\* uploadSpeechSample rejects: catch toasts, finally.
SpeechUploadFails(t) ==
    /\ t.k = "upload"
    /\ toast' = "Upload failed"
    /\ isSpeechUploading' = FALSE
    /\ tasks' = Without(tasks, t)
    /\ UNCHANGED <<auth, user, assessmentId, activeStepIndex, isLoading,
                   isResultPending, result, speechDurations, stores, history>>

\* handleSpeechComplete, from the recorder.
handleSpeechComplete ==
    /\ STEP_CONFIG[activeStepIndex + 1] = "speech" /\ isCloudSignedIn
    /\ user /= None /\ assessmentId /= None
    /\ toast' = "Speech tasks done"
    /\ activeStepIndex' = advanceStep(activeStepIndex)
    /\ UNCHANGED <<auth, user, assessmentId, isLoading, isSpeechUploading,
                   isResultPending, result, speechDurations, stores, history, tasks>>

\* handleCognitiveComplete up to `await submitCognitiveData(...)`. The tasks
\* are rendered on the cognitive step while there is an assessment, and are
\* passed isSubmitting = isLoading. The async function keeps the render's
\* assessmentId, auth and speechDurations in its closure.
handleCognitiveComplete(scores) ==
    /\ STEP_CONFIG[activeStepIndex + 1] = "cognitive" /\ assessmentId /= None /\ ~isLoading
    /\ IF assessmentId = None \/ user = None
         THEN /\ toast' = "Assessment not started"
              /\ UNCHANGED <<isLoading, activeStepIndex, isResultPending, tasks>>
         ELSE /\ InFlight < MaxTasks
              /\ isLoading' = TRUE
              /\ activeStepIndex' = advanceStep(activeStepIndex)
              /\ isResultPending' = TRUE
              /\ tasks' = Spawn(tasks, [k |-> "cognitive", pc |-> "submit",
                                         assessmentId |-> assessmentId[1], scores |-> scores,
                                         auth |-> auth, speechDurations |-> speechDurations,
                                         i |-> 0, res |-> None])
              /\ UNCHANGED toast
    /\ UNCHANGED <<auth, user, assessmentId, isSpeechUploading, result, speechDurations,
                   stores, history>>

\* The try block that follows setResult(res), up to its first await: the
\* branch on the closure's auth. Without a provider the plain store is
\* written and read synchronously and the handler finishes.
PersistResult(t, res) ==
    IF t.auth \in {"firebase", "local"}
      THEN /\ tasks' = With(tasks, t, [t EXCEPT !.pc = "save", !.res = Some(res)])
           /\ UNCHANGED <<stores, history, isResultPending, isLoading>>
      ELSE /\ stores' = [stores EXCEPT !["none"] = Append(@, res)]
           /\ history' = stores'["none"]
           /\ isResultPending' = FALSE
           /\ isLoading' = FALSE
           /\ tasks' = Without(tasks, t)

\* submitCognitiveData settles (its failure is swallowed). In heuristic mode:
\* compute the heuristic, setResult, persist. Otherwise
\* `await requestRiskPrediction(...)`.
CognitiveSubmitted(t) ==
    /\ t.k = "cognitive" /\ t.pc = "submit"
    /\ IF useLocalHeuristic
         THEN LET heuristic == Heuristic(t.assessmentId, t.scores,
                                         t.speechDurations)
              IN /\ result' = Some(heuristic)
                 /\ PersistResult(t, heuristic)
         ELSE /\ tasks' = With(tasks, t, [t EXCEPT !.pc = "predict"])
              /\ UNCHANGED <<result, stores, history, isResultPending, isLoading>>
    /\ UNCHANGED <<auth, user, assessmentId, activeStepIndex, isSpeechUploading,
                   speechDurations, toast>>

\* saveReport / saveEncryptedAssessmentResult resolves: the closure's store
\* holds the result; then `await` its reload.
CognitiveSaved(t) ==
    /\ t.k = "cognitive" /\ t.pc = "save"
    /\ stores' = [stores EXCEPT ![t.auth] = Append(@, t.res[1])]
    /\ tasks' = With(tasks, t, [t EXCEPT !.pc = "reload"])
    /\ UNCHANGED <<auth, user, assessmentId, activeStepIndex, isLoading, isSpeechUploading,
                   isResultPending, result, speechDurations, toast, history>>

\* Mutant: the rejection reaches the handler's outer catch, which toasts.
CognitivePersistFailsSurfaced(t) ==
    /\ t.k = "cognitive" /\ t.pc \in {"save", "reload"}
    /\ toast' = "Prediction failed"
    /\ isResultPending' = FALSE
    /\ isLoading' = FALSE
    /\ tasks' = Without(tasks, t)
    /\ UNCHANGED <<auth, user, assessmentId, activeStepIndex, isSpeechUploading,
                   result, speechDurations, stores, history>>

\* The save or the reload rejects: catch {}, setIsResultPending(false), finally.
CognitivePersistFails(t) ==
    /\ t.k = "cognitive" /\ t.pc \in {"save", "reload"}
    /\ isResultPending' = FALSE
    /\ isLoading' = FALSE
    /\ tasks' = Without(tasks, t)
    /\ UNCHANGED <<auth, user, assessmentId, activeStepIndex, isSpeechUploading,
                   result, speechDurations, toast, stores, history>>

\* The reload resolves: setHistory(arr), setIsResultPending(false), finally.
CognitiveReloaded(t) ==
    /\ t.k = "cognitive" /\ t.pc = "reload"
    /\ history' = stores[t.auth]
    /\ isResultPending' = FALSE
    /\ isLoading' = FALSE
    /\ tasks' = Without(tasks, t)
    /\ UNCHANGED <<auth, user, assessmentId, activeStepIndex, isSpeechUploading,
                   result, speechDurations, toast, stores>>

\* Polls of fetchAssessmentResult per completion.
PollLimit == 15

\* Mutant: one poll too many.
PollAgainInclusive(i) == i <= PollLimit

\* The loop condition i < 15.
PollAgain(i) == i < PollLimit

\* What the backend's prediction returns for an assessment.
RemoteResult(aid, scores) ==
    [assessmentId |-> aid, riskLevel |-> "Medium", probability |-> Dec(50, 100),
     subScores |-> scores]

\* The loop test with counter i: either the next fetch is awaited or the
\* loop ends with fetched null: the pending toast, setIsResultPending(false),
\* finally.
PollOrGiveUp(t, i) ==
    IF PollAgain(i)
      THEN /\ tasks' = With(tasks, t, [t EXCEPT !.pc = "fetch", !.i = i])
           /\ UNCHANGED <<toast, isResultPending, isLoading>>
      ELSE /\ toast' = "Prediction pending"
           /\ isResultPending' = FALSE
           /\ isLoading' = FALSE
           /\ tasks' = Without(tasks, t)

\* requestRiskPrediction settles (its failure is swallowed): the loop starts
\* with i = 0.
CognitivePredicted(t) ==
    /\ t.k = "cognitive" /\ t.pc = "predict"
    /\ PollOrGiveUp(t, 0)
    /\ UNCHANGED <<auth, user, assessmentId, activeStepIndex, isSpeechUploading,
                   result, speechDurations, stores, history>>

\* fetchAssessmentResult resolves: break, setResult(fetched), persist.
CognitiveFetched(t) ==
    /\ t.k = "cognitive" /\ t.pc = "fetch"
    /\ LET fetched == RemoteResult(t.assessmentId, t.scores)
       IN /\ result' = Some(fetched)
          /\ PersistResult(t, fetched)
    /\ UNCHANGED <<auth, user, assessmentId, activeStepIndex, isSpeechUploading,
                   speechDurations, toast>>

\* fetchAssessmentResult rejects: `await sleep(1000)`.
CognitiveFetchFails(t) ==
    /\ t.k = "cognitive" /\ t.pc = "fetch"
    /\ tasks' = With(tasks, t, [t EXCEPT !.pc = "sleep"])
    /\ UNCHANGED <<auth, user, assessmentId, activeStepIndex, isLoading, isSpeechUploading,
                   isResultPending, result, speechDurations, toast, stores, history>>

\* The sleep ends: i++ and the loop test.
CognitiveSlept(t) ==
    /\ t.k = "cognitive" /\ t.pc = "sleep"
    /\ PollOrGiveUp(t, t.i + 1)
    /\ UNCHANGED <<auth, user, assessmentId, activeStepIndex, isSpeechUploading,
                   result, speechDurations, stores, history>>

(***************************************************************************)
(* Specification of the Assessment page                                    *)
(***************************************************************************)
GenIdle ==
    /\ language = "en"
    /\ cognitiveTasks = <<>>

ChatIdle ==
    /\ ChatInit
    /\ apiKey = FALSE

\* Sub-scores a completion reports.
AppScores ==
    { [memoryScore |-> 1, attentionScore |-> 2, languageScore |-> 1, executiveScore |-> 0] }
\* Recordings uploaded: of the first two speech tasks, 45 s long.
AppSpeechTasks == { SPEECH_TASKS[1].id, SPEECH_TASKS[2].id }
AppDurations == { 45 * 1000 }
\* What is typed into the local-login fields.
AppCredentials == { "", "x" }

Init ==
    /\ AppInit
    /\ assessmentId = None
    /\ result = None
    /\ speechDurations = [id \in {} |-> 0]
    /\ useLocalHeuristic = USE_LOCAL_HEURISTIC
    /\ GenIdle
    /\ ChatIdle

idle == <<genVars, chatVars, useLocalHeuristic, started>>

GoogleClick == ClickGoogle /\ UNCHANGED idle
GoogleSignInResolves == (\E t \in BagToSet(tasks) : GoogleSignedIn(t)) /\ UNCHANGED idle
GoogleRejects == (\E t \in BagToSet(tasks) : GoogleFails(t)) /\ UNCHANGED idle
GoogleLoadResolves == (\E t \in BagToSet(tasks) : GoogleLoaded(t)) /\ UNCHANGED idle
LocalLogin == (\E e, pw \in AppCredentials : handleAuthLogin(e, pw)) /\ UNCHANGED idle
LocalFingerprintResolves == (\E t \in BagToSet(tasks) : LoginFingerprinted(t)) /\ UNCHANGED idle
LocalLoadSettles == (\E t \in BagToSet(tasks), ok \in BOOLEAN : LoginLoaded(t, ok)) /\ UNCHANGED idle
Logout == handleAuthLogout /\ UNCHANGED idle
EffectResolves == (\E t \in BagToSet(tasks) : EffectLoadResolves(t)) /\ UNCHANGED idle
EffectRejects == (\E t \in BagToSet(tasks) : EffectLoadRejects(t)) /\ UNCHANGED idle
OnboardingSubmit == handleOnboardingSubmit /\ UNCHANGED idle
RegisterResolves == (\E t \in BagToSet(tasks) : OnboardingRegistered(t)) /\ UNCHANGED idle
OnboardingRejects == (\E t \in BagToSet(tasks) : OnboardingFails(t)) /\ UNCHANGED idle
StartResolves ==
    (\E t \in BagToSet(tasks) : OnboardingStarted(t)) /\ UNCHANGED <<genVars, chatVars, useLocalHeuristic>>
SpeechUpload ==
    (\E taskId \in AppSpeechTasks, d \in AppDurations : handleSpeechUpload(taskId, d)) /\ UNCHANGED idle
UploadResolves == (\E t \in BagToSet(tasks) : SpeechUploaded(t)) /\ UNCHANGED idle
UploadRejects == (\E t \in BagToSet(tasks) : SpeechUploadFails(t)) /\ UNCHANGED idle
SpeechComplete == handleSpeechComplete /\ UNCHANGED idle
StartNewAssessment == resetAssessment /\ UNCHANGED idle
CognitiveComplete == (\E scores \in AppScores : handleCognitiveComplete(scores)) /\ UNCHANGED idle
SubmitSettles == (\E t \in BagToSet(tasks) : CognitiveSubmitted(t)) /\ UNCHANGED idle
SaveResolves == (\E t \in BagToSet(tasks) : CognitiveSaved(t)) /\ UNCHANGED idle
PersistRejects == (\E t \in BagToSet(tasks) : CognitivePersistFails(t)) /\ UNCHANGED idle
ReloadResolves == (\E t \in BagToSet(tasks) : CognitiveReloaded(t)) /\ UNCHANGED idle
PredictSettles == (\E t \in BagToSet(tasks) : CognitivePredicted(t)) /\ UNCHANGED idle
FetchResolves == (\E t \in BagToSet(tasks) : CognitiveFetched(t)) /\ UNCHANGED idle
FetchRejects == (\E t \in BagToSet(tasks) : CognitiveFetchFails(t)) /\ UNCHANGED idle
SleepEnds == (\E t \in BagToSet(tasks) : CognitiveSlept(t)) /\ UNCHANGED idle

NextCommon ==
    \/ GoogleClick \/ GoogleSignInResolves \/ GoogleRejects \/ GoogleLoadResolves
    \/ LocalLogin \/ LocalFingerprintResolves \/ LocalLoadSettles \/ Logout
    \/ EffectResolves \/ EffectRejects
    \/ OnboardingSubmit \/ RegisterResolves \/ OnboardingRejects \/ StartResolves
    \/ SpeechUpload \/ UploadResolves \/ UploadRejects \/ SpeechComplete
    \/ CognitiveComplete \/ SubmitSettles \/ SaveResolves \/ PersistRejects \/ ReloadResolves

Next == NextCommon

Spec == Init /\ [][Next]_vars

(***************************************************************************)
(* Specification of the Assessment page built with the local heuristic     *)
(* disabled: completion requests a prediction and polls for the result.    *)
(***************************************************************************)
InitRemote ==
    /\ AppInit
    /\ assessmentId = None
    /\ result = None
    /\ speechDurations = [id \in {} |-> 0]
    /\ useLocalHeuristic = FALSE
    /\ GenIdle
    /\ ChatIdle

NextRemote == NextCommon \/ PredictSettles \/ FetchResolves \/ FetchRejects \/ SleepEnds

SpecRemote == InitRemote /\ [][NextRemote]_vars

(***************************************************************************)
(* Specification of the Assessment page over several assessments: the      *)
(* results step's "Start New Assessment" restarts the session.             *)
(***************************************************************************)
NextRestart == NextCommon \/ StartNewAssessment

SpecRestart == Init /\ [][NextRestart]_vars

(***************************************************************************)
(* Specification of the task generator alone: the language is drawn at     *)
(* construction and the first render generates the tasks.                  *)
(***************************************************************************)
AppIdle ==
    /\ AppInit
    /\ useLocalHeuristic = USE_LOCAL_HEURISTIC

HeurIdle ==
    /\ speechDurations = [id \in {} |-> 0]
    /\ assessmentId = None
    /\ result = None
    /\ AppIdle

InitTasks ==
    /\ language \in Languages
    /\ cognitiveTasks = <<>>
    /\ HeurIdle
    /\ ChatIdle

\* useMemo(() => generateCognitiveTasks(user?.language || "en"), [user?.language])
GenerateTasks ==
    /\ cognitiveTasks = <<>>
    /\ generateCognitiveTasks(language)
    /\ UNCHANGED <<language, heurVars, chatVars, appVars>>

NextTasks == GenerateTasks

SpecTasks == InitTasks /\ [][NextTasks]_vars

(***************************************************************************)
(* Specification of the heuristic alone: the speech-duration map is drawn  *)
(* at construction, the sub-scores when the cognitive stage completes.     *)
(***************************************************************************)
\* Recorded durations tried: 0 ms to MaxDurationSteps half-minutes.
MaxDurationSteps == 5
DurationSamples == { k * 30 * 1000 : k \in 0..MaxDurationSteps }
DurationMaps == UNION { [S -> DurationSamples] : S \in SUBSET SpeechTaskIds }

InitHeur ==
    /\ speechDurations \in DurationMaps
    /\ assessmentId = Some("a1")
    /\ result = None
    /\ AppIdle
    /\ GenIdle
    /\ ChatIdle

\* handleCognitiveComplete's heuristic branch up to setResult(heuristic).
CompleteHeuristic ==
    /\ result = None
    /\ \E scores \in ScoreTuples :
         result' = Some(Heuristic(assessmentId[1], scores, speechDurations))
    /\ UNCHANGED <<speechDurations, assessmentId, genVars, chatVars, appVars>>

NextHeur == CompleteHeuristic

SpecHeur == InitHeur /\ [][NextHeur]_vars

(***************************************************************************)
(* Specification of the chat widget alone: the API key is part of the      *)
(* build's environment, drawn at construction.                             *)
(***************************************************************************)
InitChat ==
    /\ ChatInit
    /\ apiKey \in BOOLEAN
    /\ HeurIdle
    /\ GenIdle

Send ==
    /\ Len(messages) < 1 + 2 * MaxSends
    /\ \E input \in Inputs : handleSend(input)
    /\ UNCHANGED <<apiKey, heurVars, genVars, appVars>>

RemoteReplies ==
    /\ \E text \in RemoteTexts : chatDeepSeekResolves(text)
    /\ UNCHANGED <<apiKey, heurVars, genVars, appVars>>

RemoteFails ==
    /\ chatDeepSeekThrows
    /\ UNCHANGED <<apiKey, heurVars, genVars, appVars>>

Reply ==
    /\ handleSendResume
    /\ UNCHANGED <<apiKey, heurVars, genVars, appVars>>

NextChat == Send \/ RemoteReplies \/ RemoteFails \/ Reply

SpecChat == InitChat /\ [][NextChat]_vars

\* What a bot message can say.
ReplyTexts ==
    RemoteTexts \cup {MenuResponse} \cup { KB[k].a \o Disclaimer : k \in 1..Len(KB) }

\* The step of Reply, whatever the text: the awaited callDeepSeek has settled
\* and handleSend resumes.
ReplyResumes ==
    /\ chatCall /= None
    /\ chatCall[1].status \in {"local", "ok", "err"}
    /\ chatCall' = None
    /\ loading' = FALSE
    /\ \E text \in ReplyTexts : messages' = Append(messages, [role |-> "bot", text |-> text])
    /\ UNCHANGED <<apiKey, heurVars, genVars, appVars>>

\* The same with the scheduling the runtime guarantees: the remote call's
\* promise settles, and the awaiting handleSend is then resumed.
SpecChatLive ==
    InitChat /\ [][NextChat]_vars /\ WF_vars(RemoteReplies \/ RemoteFails) /\ WF_vars(ReplyResumes)

(***************************************************************************)
(* Claims                                                                  *)
(***************************************************************************)

\* C1: for every sub-score tuple within the domain maxima and every
\* speech-duration map, the probability of the heuristic result lies in
\* [0.02, 0.98].
C1_ProbabilityClamped ==
    result /= None =>
        /\ 100 * result[1].probability >= 2 * ProbDen
        /\ 100 * result[1].probability <= 98 * ProbDen

\* C1 witness: a result whose raw probability 1 was clamped down to 0.98, and
\* one whose raw probability 0 was clamped up to 0.02.
C1_Witness ==
    /\ result /= None
    /\ cognitiveAvg(result[1].subScores) = 0
    /\ coverage(speechDurations) = 0
    /\ 100 * result[1].probability = 98 * ProbDen

\* C2: the risk level is a function of the probability alone: High when
\* probability > 0.66, Medium when 0.33 < probability <= 0.66, Low otherwise.
C2_RiskLevelByThreshold ==
    result /= None =>
        LET p == 100 * result[1].probability
            l == result[1].riskLevel
        IN /\ l \in {"Low", "Medium", "High"}
           /\ (l = "High") <=> (p > 66 * ProbDen)
           /\ (l = "Medium") <=> (p > 33 * ProbDen /\ p <= 66 * ProbDen)
           /\ (l = "Low") <=> (p <= 33 * ProbDen)

\* C2 witness: a Medium result strictly between the two thresholds.
C2_Witness ==
    /\ result /= None
    /\ result[1].riskLevel = "Medium"
    /\ 100 * result[1].probability > 33 * ProbDen
    /\ 100 * result[1].probability < 66 * ProbDen

\* The coverage as C3 states it: the mean ratio over the attempted tasks only,
\* 0.5 when none was attempted; as a count of 1/CoverageDen.
AttemptedIndexes(durations) ==
    { i \in 1..Len(SPEECH_TASKS) : SPEECH_TASKS[i].id \in DOMAIN durations }
RECURSIVE SumAttempted(_, _)
SumAttempted(durations, i) ==
    IF i = 0 THEN 0
    ELSE SumAttempted(durations, i - 1)
         + (IF i \in AttemptedIndexes(durations)
              THEN Ratio(Min(durations[SPEECH_TASKS[i].id], SPEECH_TASKS[i].maxDurationMs),
                         SPEECH_TASKS[i].maxDurationMs)
              ELSE 0)
AttemptedMeanCoverage(durations) ==
    LET n == Cardinality(AttemptedIndexes(durations)) IN
    IF n = 0 THEN CoverageDen \div 2
    ELSE (SumAttempted(durations, Len(SPEECH_TASKS)) * (CoverageDen \div RatioDen)) \div n

\* C3: the speech coverage used by the heuristic is the mean ratio over the
\* speech tasks actually attempted, and the neutral 0.5 when none was.
C3_CoverageOverAttempted ==
    result /= None =>
        result[1].probability =
            clampProbability(rawProbability(cognitiveAvg(result[1].subScores),
                                            AttemptedMeanCoverage(speechDurations)))

\* C9: task generation returns exactly seven tasks (two word-recall, two
\* digit-span, two attention, one clock-drawing with no options and no
\* answer), each word-recall task has 5 distinct words, and the two
\* word-recall tasks have no word in common.
TasksOfType(ty) == { i \in 1..Len(cognitiveTasks) : cognitiveTasks[i].type = ty }
Distinct(arr) == \A i, j \in 1..Len(arr) : arr[i] = arr[j] => i = j
C9_SevenValidTasks ==
    cognitiveTasks /= <<>> =>
        /\ Len(cognitiveTasks) = 7
        /\ Cardinality(TasksOfType("word-recall")) = 2
        /\ Cardinality(TasksOfType("digit-span")) = 2
        /\ Cardinality(TasksOfType("attention")) = 2
        /\ Cardinality(TasksOfType("clock-drawing")) = 1
        /\ \A i \in TasksOfType("clock-drawing") :
             DOMAIN cognitiveTasks[i] \cap {"options", "correctAnswer", "sequenceAnswer"} = {}
        /\ \A i \in TasksOfType("word-recall") :
             /\ Len(cognitiveTasks[i].prompt) = 5
             /\ Len(cognitiveTasks[i].options) = 5
             /\ Distinct(cognitiveTasks[i].prompt)
             /\ Distinct(cognitiveTasks[i].options)
        /\ \A i, j \in TasksOfType("word-recall") :
             i /= j =>
               \A a \in 1..Len(cognitiveTasks[i].options), b \in 1..Len(cognitiveTasks[j].options) :
                 cognitiveTasks[i].options[a] /= cognitiveTasks[j].options[b]

\* C9 witness: tasks generated for an unrecognised language code, the second
\* word pool drawn by a shuffle that moved the remaining words.
C9_Witness ==
    /\ language = "xx"
    /\ cognitiveTasks /= <<>>
    /\ cognitiveTasks[4].prompt /= Slice(RestOfLexicon(Lexicon(language), cognitiveTasks[1].prompt), 5)

\* C10: for every word-recall and digit-span task the sequence answer has
\* the length of the prompt sequence, every index in it is a position of the
\* options list, and the options read at those indices are the prompt
\* sequence.
C10_AnswerReconstructsPrompt ==
    \A i \in TasksOfType("word-recall") \cup TasksOfType("digit-span") :
        LET t == cognitiveTasks[i] IN
        /\ Len(t.sequenceAnswer) = Len(t.prompt)
        /\ \A k \in 1..Len(t.sequenceAnswer) :
             /\ t.sequenceAnswer[k] >= 0
             /\ t.sequenceAnswer[k] < Len(t.options)
             /\ t.options[t.sequenceAnswer[k] + 1] = t.prompt[k]

\* C10 witness: a word-recall and a digit-span task whose options are not in
\* prompt order, so that the answer is not the identity.
C10_Witness ==
    /\ cognitiveTasks /= <<>>
    /\ \E k \in 1..5 : cognitiveTasks[1].sequenceAnswer[k] /= k - 1
    /\ \E k \in 1..5 : cognitiveTasks[2].sequenceAnswer[k] /= k - 1
    /\ Len(cognitiveTasks[2].options) > Len(cognitiveTasks[2].prompt)

\* C4: when the fallback matcher answers "What causes dementia risk", the
\* reply is the risk/cause canned answer followed by the disclaimer.
C4_CausesQueryGetsRiskAnswer ==
    \A i \in 1..(Len(messages) - 1) :
        ( /\ ~apiKey
          /\ messages[i].role = "user"
          /\ messages[i].text = "What causes dementia risk"
          /\ messages[i + 1].role = "bot" )
        => messages[i + 1].text = KB[3].a \o Disclaimer

\* C7: for every send, the bot reply is the remote completion's text exactly
\* when an API key is present and the remote call succeeded; without a key
\* no remote call is made and the reply is the fallback answer; when the
\* remote call failed the reply is the fallback answer for the same
\* question, and the handler finishes (loading is false again).
C7_RemoteElseFallback ==
    [][ (chatCall /= None /\ chatCall' = None) =>
          LET c == chatCall[1]
              reply == messages'[Len(messages')]
              question == messages[Len(messages)]
          IN /\ Len(messages') = Len(messages) + 1
             /\ question = [role |-> "user", text |-> c.q]
             /\ reply.role = "bot"
             /\ (apiKey /\ c.status = "ok") => (reply.text = c.text /\ c.text \in RemoteTexts)
             /\ ~apiKey => (c.status = "local" /\ c.msgs = <<>> /\ reply.text = fallbackAnswer(c.q))
             /\ (apiKey /\ c.status /= "ok") => (c.status = "err" /\ reply.text = fallbackAnswer(c.q))
             /\ (reply.text \in RemoteTexts) <=> (apiKey /\ c.status = "ok")
             /\ loading' = FALSE ]_vars

\* C7 witness: with a key present, a remote call failed and the transcript
\* holds the fallback answer to the question asked.
C7_Witness ==
    /\ apiKey
    /\ ~loading
    /\ Len(messages) = 3
    /\ messages[2] = [role |-> "user", text |-> "any cure?"]
    /\ messages[3] = [role |-> "bot", text |-> KB[6].a \o Disclaimer]

\* The content of the store of the active authentication mode: what the
\* history effect loads for the current auth and user.
ActiveStoreContent ==
    IF auth \in {"firebase", "local"} THEN stores[auth]
    ELSE IF user /= None THEN stores["none"] ELSE <<>>

\* C5: after every switch of authentication mode, once the switch and its
\* loads have finished (nothing is in flight), the history loaded under the
\* previous mode is no longer held: the history is the content of the active
\* mode's store. Stated in the form most favourable to the code: where a
\* load failed, the cleared (empty) history is accepted too.
C5_HistoryOfActiveMode ==
    InFlight = 0 => (history = ActiveStoreContent \/ history = <<>>)

\* C6: a result is never written to two stores nor to the store of a mode
\* that is no longer active: every write to a store appends one result to
\* the store of the mode active when it is saved, and to no other.
C6_SavedToActiveStoreOnly ==
    [][ stores' /= stores =>
          /\ Len(stores'[auth]) = Len(stores[auth]) + 1
          /\ SubSeq(stores'[auth], 1, Len(stores[auth])) = stores[auth]
          /\ \A p \in Providers \ {auth} : stores'[p] = stores[p] ]_vars

\* The completions in flight.
CognitiveInFlight == { t \in BagToSet(tasks) : t.k = "cognitive" }
Polling == { t \in CognitiveInFlight : t.pc \in {"fetch", "sleep"} }

\* C8: with the local heuristic disabled, a completion sends one prediction
\* request and then fetches at most 15 times, stopping at the first success
\* (a fetch is awaited only after the prediction request or after a failed
\* fetch and its sleep, with the counter one higher and below 15); when the
\* 15th fetch has failed the handler ends normally, leaves the result as it
\* was, shows the "Prediction pending" notice and clears the pending and
\* loading flags.
C8_BoundedPolling ==
    [][ /\ Cardinality(CognitiveInFlight') <= 1
        /\ \A t2 \in Polling' :
             /\ t2.i >= 0 /\ t2.i < PollLimit
             /\ t2.pc = "fetch" /\ t2 \notin Polling =>
                  \/ /\ t2.i = 0
                     /\ \E t \in CognitiveInFlight : t.pc = "predict"
                  \/ \E t \in Polling : t.pc = "sleep" /\ t.i + 1 = t2.i
             /\ t2.pc = "sleep" /\ t2 \notin Polling =>
                  \E t \in Polling : t.pc = "fetch" /\ t.i = t2.i
        /\ \A t \in Polling :
             (t.pc = "sleep" /\ t \notin Polling') =>
                 \/ \E t2 \in Polling' : t2.pc = "fetch" /\ t2.i = t.i + 1
                 \/ /\ t.i = PollLimit - 1
                    /\ CognitiveInFlight' = {}
                    /\ toast' = "Prediction pending"
                    /\ result' = result
                    /\ isResultPending' = FALSE
                    /\ isLoading' = FALSE
        /\ \A t \in CognitiveInFlight :
             (t.pc = "predict" /\ t \notin CognitiveInFlight') =>
                 \E t2 \in Polling' : t2.pc = "fetch" /\ t2.i = 0
        /\ ~useLocalHeuristic
        /\ toast' /= "Prediction failed" ]_vars

\* C8 witness: all fetches of a completion have failed: the pending notice
\* is shown on the results step, there is no result, and the flags are clear.
C8_Witness ==
    /\ ~useLocalHeuristic
    /\ toast = "Prediction pending"
    /\ STEP_CONFIG[activeStepIndex + 1] = "results"
    /\ result = None
    /\ ~isResultPending
    /\ ~isLoading
    /\ CognitiveInFlight = {}

\* The elements of a sequence.
Range(seq) == { seq[i] : i \in 1..Len(seq) }

\* C11: in heuristic mode every step of a cognitive completion shows no
\* notice; the step in which the submission settles (resolved or rejected)
\* sets the result to the heuristic computed from the completion's scores
\* and recorded durations; the later steps (save or reload resolving or
\* rejecting) keep the result; and the step that ends the completion
\* leaves the pending flag cleared.
C11_HeuristicResultWhateverFails ==
    [][ \A t \in CognitiveInFlight :
          t \notin CognitiveInFlight' =>
            /\ useLocalHeuristic
            /\ toast' = toast
            /\ t.pc = "submit" =>
                 result' = Some(Heuristic(t.assessmentId, t.scores, t.speechDurations))
            /\ t.pc /= "submit" => result' = result
            /\ CognitiveInFlight' = {} => isResultPending' = FALSE ]_vars

\* C11 witness: a completion has ended with its result displayed although
\* the result reached no store (the save was rejected).
C11_Witness ==
    /\ useLocalHeuristic
    /\ CognitiveInFlight = {}
    /\ result /= None
    /\ \A p \in Providers : result[1] \notin Range(stores[p])
    /\ ~isResultPending
    /\ toast /= "Prediction failed"

\* The handlers of the given kinds that are suspended at an await.
HandlersInFlight(kinds) == { t \in BagToSet(tasks) : t.k \in kinds }

\* C12: after every step, a flag is set only while a handler that set it is
\* still running: with no onboarding submit and no cognitive completion in
\* flight the loading flag is false, with no speech upload in flight the
\* speech-uploading flag is false, with no cognitive completion in flight
\* the result-pending flag is false; and the step in which an onboarding
\* submit ends without an assessment having been started (registration or
\* assessment start failed) leaves the step where it was.
C12_FlagsClearedWhenFinished ==
    [][ /\ (HandlersInFlight({"onboarding", "cognitive"})' = {} => ~isLoading')
        /\ (HandlersInFlight({"upload"})' = {} => ~isSpeechUploading')
        /\ (HandlersInFlight({"cognitive"})' = {} => ~isResultPending')
        /\ \A t \in HandlersInFlight({"onboarding"}) :
             (HandlersInFlight({"onboarding"})' = {} /\ started' = started) =>
                 /\ activeStepIndex' = activeStepIndex
                 /\ assessmentId' = assessmentId ]_vars

\* C12 witness: the assessment start failed after a successful registration:
\* there is a user but no assessment, the failure is shown, the page is on
\* its first step and the loading flag is false.
C12_Witness ==
    /\ user /= None
    /\ assessmentId = None
    /\ started = 0
    /\ toast = "Could not register"
    /\ HandlersInFlight({"onboarding"}) = {}
    /\ ~isLoading
    /\ activeStepIndex = 0

\* The entries of KB whose pattern matches the query.
Matching(query) == { k \in 1..Len(KB) : RegExpTest(KB[k].q, query) }

\* C13: whenever the widget replies with the fallback (no key, or the remote
\* call failed), the reply is the answer of the earliest entry of KB whose
\* pattern matches the query, followed by the disclaimer; it is the menu
\* response exactly when no pattern matches.
C13_EarliestMatchOrMenu ==
    [][ (chatCall /= None /\ chatCall' = None /\ chatCall[1].status \in {"local", "err"}) =>
          LET matching == Matching(chatCall[1].q)
              reply == messages'[Len(messages')].text
          IN /\ \A k \in matching :
                  (\A j \in matching : k <= j) => reply = KB[k].a \o Disclaimer
             /\ reply = MenuResponse <=> matching = {} ]_vars

\* C13 witness: an upper-case query matching the third entry only has been
\* answered with that entry's answer and the disclaimer, and a query that
\* matches the first and the third entry with the first entry's.
C13_Witness ==
    /\ ~apiKey
    /\ Len(messages) = 5
    /\ messages[2].text = "RISK factors"
    /\ messages[3].text = KB[3].a \o Disclaimer
    /\ messages[4].text = "What causes dementia risk"
    /\ messages[5].text = KB[1].a \o Disclaimer

Writes(t) ==
    CASE t.k = "effect" -> {"history"}
      [] t.k \in {"google", "login"} -> IF t.pc = "load" THEN {"history"} ELSE {}
      [] t.k = "onboarding" -> IF t.pc = "start" THEN {"isLoading", "result"} ELSE {"isLoading"}
      [] t.k = "upload" -> {"isSpeechUploading"}
      [] t.k = "cognitive" ->
            CASE t.pc \in {"submit", "fetch"} -> {"result", "history", "isLoading", "isResultPending"}
              [] t.pc = "save" -> {"isLoading", "isResultPending"}
              [] t.pc = "reload" -> {"history", "isLoading", "isResultPending"}
              [] t.pc = "predict" -> {}
              [] t.pc = "sleep" -> {"isLoading", "isResultPending"}

\* C15: in no reachable state are two asynchronous operations in flight that
\* both write the same piece of UI state.
C15_NoTwoWritersInFlight ==
    \A t1, t2 \in BagToSet(tasks) :
        (t1 /= t2 \/ CopiesIn(t1, tasks) > 1) => Writes(t1) \cap Writes(t2) = {}

\* A stage handler suspended at its first remote call: registerUser,
\* uploadSpeechSample or submitCognitiveData.
AtFirstCall(t) ==
    \/ t.k = "onboarding" /\ t.pc = "register"
    \/ t.k = "upload" /\ t.pc = "upload"
    \/ t.k = "cognitive" /\ t.pc = "submit"

\* C16: while the user is not cloud-signed-in no stage of the workflow takes
\* effect: no step taken in such a state starts a remote call of onboarding
\* submit, speech upload or cognitive completion, also after a sign-out in
\* the middle of an assessment.
C16_NoStageWithoutCloudSignIn ==
    [][ ~isCloudSignedIn =>
          \A t \in BagToSet(tasks') :
              AtFirstCall(t) => CopiesIn(t, tasks') <= CopiesIn(t, tasks) ]_vars

\* C17: in every reachable state a displayed result carries the assessment
\* id of the current session; after "Start New Assessment" the result stays
\* null until a completion of the new assessment sets it.
C17_ResultOfCurrentAssessment ==
    result /= None =>
        /\ assessmentId /= None
        /\ result[1].assessmentId = assessmentId[1]

\* C18: the speech coverage of an assessment depends only on the uploads
\* that succeeded during it: the step in which an upload fails records no
\* duration, and when a new assessment has just been started (none of its
\* uploads can have succeeded yet) the coverage a completion would compute
\* is that of no recording.
C18_CoverageOfThisAssessment ==
    [][ /\ \A t \in HandlersInFlight({"upload"}) :
             (CopiesIn(t, tasks') < CopiesIn(t, tasks) /\ toast' = "Upload failed") =>
                 speechDurations' = speechDurations
        /\ started' /= started =>
             coverage(speechDurations') = coverage([id \in {} |-> 0]) ]_vars

\* The transcript after the greeting alternates user, bot.
Alternates(msgs) ==
    \A i \in 2..Len(msgs) : msgs[i].role = IF i % 2 = 0 THEN "user" ELSE "bot"

\* C19: in the chat widget every step changes the transcript by at most one
\* message; a user message is appended only by a send with non-blank input
\* while no reply is pending, and sets loading; a bot message is appended
\* only while a reply is pending, and clears loading; so the transcript
\* after the greeting alternates user, bot, and a reply is pending exactly
\* when the last message is the user's; and every pending reply is
\* eventually given (loading returns to false).
C19_OneReplyPerSend ==
    /\ [][ /\ Alternates(messages')
           /\ loading' <=> (chatCall' /= None)
           /\ loading' <=> (messages'[Len(messages')].role = "user")
           /\ messages' /= messages =>
                /\ Len(messages') = Len(messages) + 1
                /\ SubSeq(messages', 1, Len(messages)) = messages
                /\ LET last == messages'[Len(messages')] IN
                   \/ /\ last.role = "user"
                      /\ last.text /= "" /\ last.text = Trim(last.text)
                      /\ ~loading /\ loading'
                   \/ /\ last.role = "bot"
                      /\ loading /\ ~loading' ]_vars
    /\ (loading ~> ~loading)

\* C19 witness: two exchanges have completed, the first answered remotely.
C19_Witness ==
    /\ Len(messages) = 5
    /\ ~loading
    /\ chatCall = None
    /\ messages[3].text \in RemoteTexts
    /\ Alternates(messages)

====
